---- MODULE Spec2Model ----
(***************************************************************************)
(* Model of the web backend of the opfs crate (src/src/web.rs): a file     *)
(* handle, the writable stream opened on it and the snapshot reads, with   *)
(* the browser's FileSystemWritableFileStream behind the wrappers modelled *)
(* as the write-command state machine of spec.md section 4.3.              *)
(***************************************************************************)
EXTENDS Integers, Sequences, FiniteSets, TLC

\* ------------------------------------------------------------------ bounds
\* Longest file content (committed or pending) the model lets exist.
MaxFile == 2
\* Longest byte vector handed to one write.
MaxData == 1
\* Largest value of the (scaled-down) usize type; web.rs is built for wasm32
\* only (src/src/lib.rs:53), where usize and u32 have the same width.
UsizeMax == 3

\* Byte values: 0 is the zero-fill byte, 1 stands for any other byte.
Byte == {0, 1}
Usize == 0..UsizeMax
U32Modulus == UsizeMax + 1

SeqsUpTo(n) == UNION {[1..k -> Byte] : k \in 0..n}
Contents == SeqsUpTo(MaxFile)
Data == SeqsUpTo(MaxData)

Min(a, b) == IF a < b THEN a ELSE b

\* examples/advanced_file_ops.rs: the bytes of
\* b"Hello, World! This is a test file.", and a usize wide enough for them.
ExampleText ==
    <<72, 101, 108, 108, 111, 44, 32, 87, 111, 114, 108, 100, 33, 32, 84, 104, 105,
      115, 32, 105, 115, 32, 97, 32, 116, 101, 115, 116, 32, 102, 105, 108, 101, 46>>
ExampleUsizeMax == 63
\* The contents the model lets exist: the short ones, and the example's.
Bounded(b) == Len(b) <= MaxFile \/ b = ExampleText

\* Option<T>: None is the empty tuple, Some(v) the one-element tuple.
None == <<>>
Some(v) == <<v>>
IsSome(o) == Len(o) = 1
Unwrap(o) == o[1]
OptionOf(S) == {None} \cup {Some(v) : v \in S}

\* Result values: k is the kind, v the payload (bytes, or <<n>> for a size).
Ok(v) == [k |-> "Ok", v |-> v]
Err(kind) == [k |-> kind, v |-> <<>>]

\* ------------------------------------------------------- numeric conversions
\* `x as u32` for a usize x.
AsU32(n) == n % U32Modulus
\* `x as f64` for a usize x: every usize of a 32-bit target is exact in f64.
AsF64(n) == n
\* `f as usize` for a non-negative f64, usize_max being the largest usize:
\* the cast saturates.
AsUsizeOf(f, usize_max) == IF f > usize_max THEN usize_max ELSE f
AsUsize(f) == AsUsizeOf(f, UsizeMax)

\* ------------------------------------------------- crate::WriteParams values
WriteCommandType == {"Write", "Seek", "Truncate"}
WriteParams == [command_type : WriteCommandType,
                data : OptionOf(Data),
                position : OptionOf(Usize),
                size : OptionOf(Usize)]
NoParams == [command_type |-> "none", data |-> None, position |-> None, size |-> None]

\* ------------------------------------------------------ host stream machine
\* The browser object behind WritableFileStream(FileSystemWritableFileStream).
Zeros(n) == [i \in 1..n |-> 0]

\* Bytes `data` put at offset `pos` of `b`: zero-fill up to pos, overwrite,
\* keep what lies behind the written window.
HostWriteAt(b, pos, data) ==
    LET padded == IF pos > Len(b) THEN b \o Zeros(pos - Len(b)) ELSE b
        head == SubSeq(padded, 1, pos)
        tail == IF pos + Len(data) < Len(padded)
                THEN SubSeq(padded, pos + Len(data) + 1, Len(padded))
                ELSE <<>>
    IN  head \o data \o tail

\* Resize to exactly n bytes.
HostResize(b, n) == IF n > Len(b) THEN b \o Zeros(n - Len(b)) ELSE SubSeq(b, 1, n)

\* One chunk handed to an open stream s = [buf, cursor]; the result is
\* [buf, cursor, res].  A chunk that lacks its own field is rejected.
HostWriteChunk(s, chunk) ==
    CASE chunk.type = "write" ->
            IF ~IsSome(chunk.data) THEN [buf |-> s.buf, cursor |-> s.cursor, res |-> Err("TypeError")]
            ELSE LET pos == IF IsSome(chunk.position) THEN Unwrap(chunk.position) ELSE s.cursor
                     d == Unwrap(chunk.data)
                 IN  [buf |-> HostWriteAt(s.buf, pos, d), cursor |-> pos + Len(d), res |-> Ok(<<>>)]
      [] chunk.type = "seek" ->
            IF ~IsSome(chunk.position) THEN [buf |-> s.buf, cursor |-> s.cursor, res |-> Err("TypeError")]
            ELSE [buf |-> s.buf, cursor |-> Unwrap(chunk.position), res |-> Ok(<<>>)]
      [] chunk.type = "truncate" ->
            IF ~IsSome(chunk.size) THEN [buf |-> s.buf, cursor |-> s.cursor, res |-> Err("TypeError")]
            ELSE LET n == Unwrap(chunk.size)
                 IN  [buf |-> HostResize(s.buf, n), cursor |-> Min(s.cursor, n), res |-> Ok(<<>>)]

\* The pending content a freshly created stream starts from.
HostCreateWritable(content, fs_options) ==
    IF fs_options.keepExistingData THEN content ELSE <<>>

\* ------------------------------------------------------------- host file
\* Blob.slice(start, end) of a snapshot: both ends are clamped to the size.
HostSlice(content, s, e) ==
    LET lo == Min(s, Len(content))
        hi == Min(e, Len(content))
    IN  IF lo >= hi THEN <<>> ELSE SubSeq(content, lo + 1, hi)

\* new File([part, ...]): the parts one after the other.
RECURSIVE NewFile(_)
NewFile(parts) == IF parts = <<>> THEN <<>> ELSE Head(parts) \o NewFile(Tail(parts))

\* Uint8Array::from(slice): a copy of the bytes, byte by byte.
Uint8ArrayFrom(data) == [i \in 1..Len(data) |-> data[i]]

\* ------------------------------------------------------------------- state
VARIABLES
    file,     \* committed content of the file, what get_file() snapshots
    base,     \* committed content when the current stream was created
    keep,     \* keep_existing_data of the current stream
    st,       \* the stream: "none", "open", "closing", "closed" or "errored"
    buf,      \* pending content of the stream; once closed, what it committed
    cursor,   \* cursor of the open stream
    ncmd,     \* commands the current stream has run: 0, 1, 2 = more
    cmd,      \* the last command the stream ran: the method, its params, and
              \* (while the stream is open) the pending content and cursor before it
    last,     \* the last call of any kind: op, res
    rng,      \* the range of the last read_range call
    rd,       \* a reader between its two awaits: pc, snap
    tree,     \* the directory tree: the node at every path below the root
    dcall,    \* the last DirectoryHandle call: op, dir, name, flag, res
    iter,     \* the stream entries() returned: pc, dir, items, dirty
    fut       \* the future of a close() polled step by step: pc, dropped

vars == <<file, base, keep, st, buf, cursor, ncmd, cmd, last, rng, rd, tree, dcall, iter, fut>>
\* The part of the state the file and stream calls work on, and the part the
\* directory calls work on.
filevars == <<file, base, keep, st, buf, cursor, ncmd, cmd, last, rng, rd, fut>>
dirvars == <<tree, dcall, iter>>

BoundKind == {"I", "E", "U"}
Ranges == {[sk |-> sk, sv |-> sv, ek |-> ek, ev |-> ev] :
             sk \in BoundKind, sv \in Usize, ek \in BoundKind, ev \in Usize}
\* One value per unbounded side.
RangeArgs == {r \in Ranges : (r.sk = "U" => r.sv = 0) /\ (r.ek = "U" => r.ev = 0)}
NoRange == [sk |-> "U", sv |-> 0, ek |-> "U", ev |-> 0]
\* The two builds: overflow checks on (debug) and off (release).
Builds == {"debug", "release"}

Call(op, res) == [op |-> op, res |-> res]
NoClose == [pc |-> "none", dropped |-> FALSE]
NoCmd == [op |-> "none", p |-> NoParams, buf |-> <<>>, cursor |-> 0]
Idle == [pc |-> "idle", snap |-> <<>>]

\* The WriteParams values the model hands to write_with_params: the fields the
\* command reads range over all their values, the others are all absent or
\* all present with one representative value.
ParamArgs ==
    {p \in WriteParams :
        /\ p.command_type = "Write" => p.size \in {None, Some(1)}
        /\ p.command_type = "Seek" =>
              <<p.data, p.size>> \in {<<None, None>>, <<Some(<<1>>), Some(1)>>}
        /\ p.command_type = "Truncate" =>
              <<p.data, p.position>> \in {<<None, None>>, <<Some(<<1>>), Some(1)>>}}

\* The commands the convenience methods stand for.
WriteArg(data) == [command_type |-> "Write", data |-> Some(data), position |-> None, size |-> None]
TruncateArg(n) == [command_type |-> "Truncate", data |-> None, position |-> None, size |-> Some(n)]
SeekArg(n) == [command_type |-> "Seek", data |-> None, position |-> Some(n), size |-> None]

\* ------------------------------------------------- WritableFileStream (web)
\* write_at_cursor_pos with the `array.push(&uint8_array)` left out: the File
\* is built from an empty Array.
BlobChunkNoPush(data) ==
    [type |-> "write", data |-> Some(NewFile(<<>>)), position |-> None, size |-> None]

\* The chunk write_at_cursor_pos hands to write_with_blob: the bytes wrapped
\* in a Uint8Array, that in an Array, that in a File; no position.
BlobChunk(data) ==
    [type |-> "write", data |-> Some(NewFile(<<Uint8ArrayFrom(data)>>)),
     position |-> None, size |-> None]

\* The web_sys WriteParams with every Seek and Truncate sent as a Write: the
\* match on command_type dropped.
WebWriteParamsAllWrite(params) ==
    [type |-> "write",
     data |-> IF IsSome(params.data)
              THEN Some(NewFile(<<Uint8ArrayFrom(Unwrap(params.data))>>)) ELSE None,
     position |-> IF IsSome(params.position) THEN Some(AsF64(Unwrap(params.position))) ELSE None,
     size |-> IF IsSome(params.size) THEN Some(AsF64(Unwrap(params.size))) ELSE None]

\* The web_sys WriteParams with the set_position call left out.
WebWriteParamsNoPosition(params) ==
    [type |-> CASE params.command_type = "Write" -> "write"
                [] params.command_type = "Seek" -> "seek"
                [] params.command_type = "Truncate" -> "truncate",
     data |-> IF IsSome(params.data)
              THEN Some(NewFile(<<Uint8ArrayFrom(Unwrap(params.data))>>)) ELSE None,
     position |-> None,
     size |-> IF IsSome(params.size) THEN Some(AsF64(Unwrap(params.size))) ELSE None]

\* The web_sys WriteParams built from crate::WriteParams.
WebWriteParams(params) ==
    [type |-> CASE params.command_type = "Write" -> "write"
                [] params.command_type = "Seek" -> "seek"
                [] params.command_type = "Truncate" -> "truncate",
     data |-> IF IsSome(params.data)
              THEN Some(NewFile(<<Uint8ArrayFrom(Unwrap(params.data))>>)) ELSE None,
     position |-> IF IsSome(params.position) THEN Some(AsF64(Unwrap(params.position))) ELSE None,
     size |-> IF IsSome(params.size) THEN Some(AsF64(Unwrap(params.size))) ELSE None]

\* truncate calling seek_with_u32 in place of truncate_with_u32.
TruncateAsSeek(size) ==
    [type |-> "seek", data |-> None, position |-> Some(AsU32(size)), size |-> None]

\* truncate with the size cast to a narrower integer than the host takes.
TruncateNarrow(size) ==
    [type |-> "truncate", data |-> None, position |-> None, size |-> Some(size % 2)]

\* truncate_with_u32(size as u32)
TruncateChunk(size) ==
    [type |-> "truncate", data |-> None, position |-> None, size |-> Some(AsU32(size))]

\* seek with the offset cast to a narrower integer than the host takes.
SeekNarrow(offset) ==
    [type |-> "seek", data |-> None, position |-> Some(offset % 2), size |-> None]

\* seek_with_u32(offset as u32)
SeekChunk(offset) ==
    [type |-> "seek", data |-> None, position |-> Some(AsU32(offset)), size |-> None]

\* What the host answers to a chunk in the stream's present state: an open
\* stream runs it, a closed one rejects it, one that rejected a chunk stays
\* in error.
HostWrite(chunk) ==
    CASE st = "open" -> HostWriteChunk([buf |-> buf, cursor |-> cursor], chunk)
      [] st = "closed" -> [buf |-> buf, cursor |-> cursor, res |-> Err("Closed")]
      [] OTHER -> [buf |-> buf, cursor |-> cursor, res |-> Err("TypeError")]

\* `JsFuture::from(self.0.<call>(chunk)?).await?; Ok(())` with every
\* rejection turned into Ok(()): the `?` dropped.
StreamStepSwallow(op, chunk) ==
    /\ st # "none"
    /\ LET r == HostWrite(chunk)
       IN  /\ Bounded(r.buf)
           /\ buf' = r.buf
           /\ cursor' = r.cursor
           /\ st' = IF st = "open" /\ r.res.k # "Ok" THEN "errored" ELSE st
           /\ last' = Call(op, Ok(<<>>))
    /\ UNCHANGED <<file, base, keep, rng>>

\* The same call writing through to the file instead of to the stream's
\* pending content.
StreamStepWriteThrough(op, chunk) ==
    /\ st # "none"
    /\ LET r == HostWrite(chunk)
       IN  /\ Bounded(r.buf)
           /\ buf' = r.buf
           /\ file' = IF st = "open" THEN r.buf ELSE file
           /\ cursor' = r.cursor
           /\ st' = IF st = "open" /\ r.res.k # "Ok" THEN "errored" ELSE st
           /\ last' = Call(op, r.res)
    /\ UNCHANGED <<base, keep, rng>>

\* `JsFuture::from(self.0.<call>(chunk)?).await?; Ok(())`: the host's answer
\* becomes the stream's state and the call's result.
StreamStep(op, chunk) ==
    /\ st # "none"
    /\ LET r == HostWrite(chunk)
       IN  /\ Bounded(r.buf)
           /\ buf' = r.buf
           /\ cursor' = r.cursor
           /\ st' = IF st = "open" /\ r.res.k # "Ok" THEN "errored" ELSE st
           /\ last' = Call(op, r.res)
    /\ UNCHANGED <<file, base, keep, rng>>

\* A stream call, with the command it ran kept in cmd.
StreamCall(op, p, chunk) ==
    /\ StreamStep(op, chunk)
    /\ IF st = "open"
       THEN /\ cmd' = [op |-> op, p |-> p, buf |-> buf, cursor |-> cursor]
            /\ ncmd' = Min(ncmd + 1, 2)
       ELSE UNCHANGED <<cmd, ncmd>>
    /\ UNCHANGED <<rd, tree, dcall, iter, fut>>

write_at_cursor_pos(data) == StreamCall("write_at_cursor_pos", WriteArg(data), BlobChunk(data))

write_with_params(params) == StreamCall("write_with_params", params, WebWriteParams(params))

truncate(size) == StreamCall("truncate", TruncateArg(size), TruncateChunk(size))

seek(offset) == StreamCall("seek", SeekArg(offset), SeekChunk(offset))

\* close(): the host swaps the pending content in as the file's content.
close ==
    /\ st # "none"
    /\ IF st = "open"
       THEN /\ file' = buf
            /\ st' = "closed"
            /\ cursor' = 0
            /\ cmd' = [cmd EXCEPT !.buf = <<>>, !.cursor = 0]
            /\ last' = Call("close", Ok(<<>>))
       ELSE /\ last' = Call("close", Err(IF st = "closed" THEN "Closed" ELSE "TypeError"))
            /\ UNCHANGED <<file, st, cursor, cmd>>
    /\ UNCHANGED <<base, keep, buf, ncmd, rng, rd, tree, dcall, iter, fut>>

\* ------------------------------------------------------------ FileHandle (web)
\* FileSystemCreateWritableOptions left as new() makes it: the
\* set_keep_existing_data call dropped.
CreateWritableOptionsUnset(keep_existing_data) == [keepExistingData |-> FALSE]

\* FileSystemCreateWritableOptions::new() with keep_existing_data set.
CreateWritableOptions(keep_existing_data) == [keepExistingData |-> keep_existing_data]

\* One stream at a time (spec.md section 5): a new one is created when no
\* stream is open.
create_writable_with_options(keep_existing_data) ==
    /\ st # "open"
    /\ st' = "open"
    /\ buf' = HostCreateWritable(file, CreateWritableOptions(keep_existing_data))
    /\ cursor' = 0
    /\ keep' = keep_existing_data
    /\ base' = file
    /\ ncmd' = 0
    /\ cmd' = NoCmd
    /\ last' = Call("create_writable", Ok(<<>>))
    /\ UNCHANGED <<file, rng, rd, tree, dcall, iter, fut>>

\* File::size: `self.0.size() as usize`
FileSizeOf(snap, usize_max) == AsUsizeOf(Len(snap), usize_max)
FileSize(snap) == FileSizeOf(snap, UsizeMax)

\* File::read: a vector of size() zeros, then copy_to, which panics unless
\* the buffer has exactly that length.
FileReadOf(snap, usize_max) ==
    LET vec == Zeros(FileSizeOf(snap, usize_max))
    IN  IF Len(vec) = Len(snap) THEN Ok([i \in 1..Len(vec) |-> snap[i]]) ELSE Err("Panic")
FileRead(snap) == FileReadOf(snap, UsizeMax)

\* FileHandle::read: get_file, then File::read of the snapshot.
ReadOn(usize_max) ==
    /\ last' = Call("read", FileReadOf(file, usize_max))
    /\ UNCHANGED <<file, base, keep, st, buf, cursor, ncmd, cmd, rng, rd, tree, dcall, iter, fut>>
read == ReadOn(UsizeMax)

\* FileHandle::size
SizeOn(usize_max) ==
    /\ last' = Call("size", Ok(<<FileSizeOf(file, usize_max)>>))
    /\ UNCHANGED <<file, base, keep, st, buf, cursor, ncmd, cmd, rng, rd, tree, dcall, iter, fut>>
size == SizeOn(UsizeMax)

\* `n + 1` with the `+ 1` left out.
AddNone(n, build, usize_max) == Some(n)

\* `n + 1` on usize: with overflow checks the addition panics at the largest
\* usize (None), without them it wraps.
AddOneOf(n, build, usize_max) ==
    IF n + 1 > usize_max
    THEN IF build = "debug" THEN None ELSE Some((n + 1) % (usize_max + 1))
    ELSE Some(n + 1)
AddOne(n, build) == AddOneOf(n, build, UsizeMax)

\* File::read_range on a snapshot.
FileReadRangeOf(snap, range, build, usize_max) ==
    LET fsize == FileSizeOf(snap, usize_max)
        start == CASE range.sk = "I" -> Some(range.sv)
                   [] range.sk = "E" -> AddOneOf(range.sv, build, usize_max)
                   [] range.sk = "U" -> Some(0)
        end == CASE range.ek = "I" -> AddOneOf(range.ev, build, usize_max)
                 [] range.ek = "E" -> Some(range.ev)
                 [] range.ek = "U" -> Some(fsize)
    IN  IF ~IsSome(start) \/ ~IsSome(end) THEN Err("Panic")
        ELSE IF Unwrap(start) >= fsize THEN Ok(<<>>)
        ELSE LET actual_end == Min(Unwrap(end), fsize)
             IN  IF Unwrap(start) >= actual_end THEN Ok(<<>>)
                 ELSE LET blob == HostSlice(snap, AsF64(Unwrap(start)), AsF64(actual_end))
                          vec == Zeros(actual_end - Unwrap(start))
                      IN  IF Len(vec) = Len(blob)
                          THEN Ok([i \in 1..Len(vec) |-> blob[i]])
                          ELSE Err("Panic")
FileReadRange(snap, range, build) == FileReadRangeOf(snap, range, build, UsizeMax)

\* FileHandle::read_range: get_file, then File::read_range of the snapshot.
ReadRangeOn(range, build, usize_max) ==
    /\ last' = Call("read_range", FileReadRangeOf(file, range, build, usize_max))
    /\ rng' = range
    /\ UNCHANGED <<file, base, keep, st, buf, cursor, ncmd, cmd, rd, tree, dcall, iter, fut>>
read_range(range, build) == ReadRangeOn(range, build, UsizeMax)

\* ------------------------------------------------------ host directory tree
\* The browser's directory entries behind DirectoryHandle(FileSystemDirectoryHandle):
\* the tree is the set of its entries, each with its path from the root.
Names == {"a", "b"}
\* The paths below the root: its children and its grandchildren.
Paths == {<<n>> : n \in Names} \cup {<<n, m>> : n \in Names, m \in Names}
\* The directories a handle is taken of: the root and its children.
DirPaths == {<<>>} \cup {<<n>> : n \in Names}

DirEntry(p) == [path |-> p, kind |-> "directory", content |-> <<>>]
FileEntry(p, content) == [path |-> p, kind |-> "file", content |-> content]

EmptyTree == {}
\* What a path holds in a tree at rest: nothing, a directory, an empty file
\* or a file of one byte.
Slots == {"none", "directory", "empty file", "file"}
\* The trees at rest: one entry at most per path, and entries below
\* directories only.
Trees ==
    {{IF f[p] = "directory" THEN DirEntry(p)
      ELSE FileEntry(p, IF f[p] = "file" THEN <<1>> ELSE <<>>) : p \in {q \in Paths : f[q] # "none"}} :
        f \in {g \in [Paths -> Slots] :
                  \A p \in Paths : (Len(p) > 1 /\ g[p] # "none") => g[<<p[1]>>] = "directory"}}

IsPrefix(p, q) == Len(p) <= Len(q) /\ SubSeq(q, 1, Len(p)) = p
HasKind(t, p, kind) == \E e \in t : e.path = p /\ e.kind = kind
IsDir(t, d) == IF d = <<>> THEN TRUE ELSE HasKind(t, d, "directory")
\* The entries of the direct children of directory d.
Children(t, d) == {e \in t : Len(e.path) = Len(d) + 1 /\ IsPrefix(d, e.path)}
BaseName(e) == e.path[Len(e.path)]

\* getFileHandle(name, options) on directory d: [tree, res].
HostGetFileHandle(t, d, name, options) ==
    LET p == d \o <<name>>
    IN  CASE HasKind(t, p, "directory") -> [tree |-> t, res |-> Err("TypeMismatch")]
          [] HasKind(t, p, "file") -> [tree |-> t, res |-> Ok(p)]
          [] OTHER -> IF options.create
                      THEN [tree |-> t \cup {FileEntry(p, <<>>)}, res |-> Ok(p)]
                      ELSE [tree |-> t, res |-> Err("NotFound")]

\* getDirectoryHandle(name, options) on directory d.
HostGetDirectoryHandle(t, d, name, options) ==
    LET p == d \o <<name>>
    IN  CASE HasKind(t, p, "file") -> [tree |-> t, res |-> Err("TypeMismatch")]
          [] HasKind(t, p, "directory") -> [tree |-> t, res |-> Ok(p)]
          [] OTHER -> IF options.create
                      THEN [tree |-> t \cup {DirEntry(p)}, res |-> Ok(p)]
                      ELSE [tree |-> t, res |-> Err("NotFound")]

\* removeEntry(name, options) on directory d.
HostRemoveEntry(t, d, name, options) ==
    LET p == d \o <<name>>
    IN  CASE \A e \in t : e.path # p -> [tree |-> t, res |-> Err("NotFound")]
          [] HasKind(t, p, "directory") /\ Children(t, p) # {} /\ ~options.recursive ->
                [tree |-> t, res |-> Err("NotEmpty")]
          [] OTHER -> [tree |-> {e \in t : ~IsPrefix(p, e.path)}, res |-> Ok(<<>>)]

\* The [key, value] pair the directory's async iterator yields for entry e.
HostEntry(e) ==
    <<BaseName(e), IF e.kind = "file" THEN "FileSystemFileHandle"
                   ELSE "FileSystemDirectoryHandle">>

\* ------------------------------------------------------ DirectoryHandle (web)
NoDirCall == [op |-> "none", dir |-> <<>>, name |-> "", flag |-> FALSE, res |-> Ok(<<>>)]
NoIter == [pc |-> "idle", dir |-> <<>>, items |-> <<>>, dirty |-> FALSE]

\* FileSystemGetFileOptions left as new() makes it: set_create dropped.
GetFileOptionsUnset(create) == [create |-> FALSE]

\* FileSystemGetFileOptions::new() with create set.
GetFileOptions(create) == [create |-> create]

\* FileSystemGetDirectoryOptions::new() with create set.
GetDirectoryOptions(create) == [create |-> create]

\* FileSystemRemoveOptions left as new() makes it: set_recursive dropped.
RemoveOptionsUnset(recursive) == [recursive |-> FALSE]

\* FileSystemRemoveOptions::new() with recursive set.
RemoveOptions(recursive) == [recursive |-> recursive]

\* remove_entry(name) hands the host no options: recursive is off.
NoRemoveOptions == [recursive |-> FALSE]

\* `JsFuture::from(self.0.<call>(name, ..)).await?`: the host's answer r is
\* the new tree; iter.dirty tells that the tree is no longer the one
\* entries() was called on.
DirStep(r) ==
    /\ tree' = r.tree
    /\ iter' = IF iter.pc # "idle" /\ r.tree # tree THEN [iter EXCEPT !.dirty = TRUE] ELSE iter
    /\ UNCHANGED filevars

\* A DirectoryHandle call on a live directory, kept in dcall with its result.
DirCall(op, dir, name, flag, r) ==
    /\ IsDir(tree, dir)
    /\ DirStep(r)
    /\ dcall' = [op |-> op, dir |-> dir, name |-> name, flag |-> flag, res |-> r.res]

get_file_handle_with_options(dir, name, create) ==
    DirCall("get_file_handle", dir, name, create,
            HostGetFileHandle(tree, dir, name, GetFileOptions(create)))

get_directory_handle_with_options(dir, name, create) ==
    DirCall("get_directory_handle", dir, name, create,
            HostGetDirectoryHandle(tree, dir, name, GetDirectoryOptions(create)))

remove_entry(dir, name) ==
    DirCall("remove_entry", dir, name, FALSE,
            HostRemoveEntry(tree, dir, name, NoRemoveOptions))

remove_entry_with_options(dir, name, recursive) ==
    DirCall("remove_entry_with_options", dir, name, recursive,
            HostRemoveEntry(tree, dir, name, RemoveOptions(recursive)))

\* The closure of entries() with every handle taken for a file handle.
EntryItemAllFiles(js_array) == [name |-> js_array[1], entry |-> "File"]

\* The closure entries() maps over the host's items: the name, and the
\* handle tagged by its type.
EntryItem(js_array) ==
    [name |-> js_array[1],
     entry |-> IF js_array[2] = "FileSystemFileHandle" THEN "File"
               ELSE IF js_array[2] = "FileSystemDirectoryHandle" THEN "Directory"
               ELSE "Unknown handle type"]

\* entries(): a new stream over the directory's async iterator.
entries(dir) ==
    /\ IsDir(tree, dir)
    /\ iter' = [pc |-> "open", dir |-> dir, items |-> <<>>, dirty |-> FALSE]
    /\ UNCHANGED <<tree, dcall>>
    /\ UNCHANGED filevars

\* One poll of the stream: the iterator yields a child it has not yielded
\* yet, in any order, and ends when there is none.
poll_next ==
    /\ iter.pc = "open"
    /\ LET rest == {e \in Children(tree, iter.dir) :
                       \A i \in 1..Len(iter.items) : iter.items[i].name # BaseName(e)}
       IN  IF rest = {}
           THEN iter' = [iter EXCEPT !.pc = "done"]
           ELSE \E e \in rest :
                   iter' = [iter EXCEPT !.items = Append(@, EntryItem(HostEntry(e)))]
    /\ UNCHANGED <<tree, dcall>>
    /\ UNCHANGED filevars

Init ==
    /\ file = <<>>
    /\ base = <<>>
    /\ keep = FALSE
    /\ st = "none"
    /\ buf = <<>>
    /\ cursor = 0
    /\ ncmd = 0
    /\ cmd = NoCmd
    /\ last = Call("none", Ok(<<>>))
    /\ rng = NoRange
    /\ rd = Idle
    /\ tree = EmptyTree
    /\ dcall = NoDirCall
    /\ iter = NoIter
    /\ fut = NoClose

Next ==
    \/ \E k \in BOOLEAN : create_writable_with_options(k)
    \/ \E data \in Data : write_at_cursor_pos(data)
    \/ \E n \in Usize : truncate(n)
    \/ \E n \in Usize : seek(n)
    \/ close
    \/ read
    \/ size

Spec == Init /\ [][Next]_vars

\* The life of one stream on a new file, with every command, the generalized
\* descriptor included.
NextStream ==
    \/ \E k \in BOOLEAN : st = "none" /\ create_writable_with_options(k)
    \/ \E data \in Data : write_at_cursor_pos(data)
    \/ \E params \in ParamArgs : write_with_params(params)
    \/ \E n \in Usize : truncate(n)
    \/ \E n \in Usize : seek(n)
    \/ close

SpecStream == Init /\ [][NextStream]_vars

\* ------------------------------------------------ reads between the awaits
\* FileHandle::get_file: the first await of read, read_range and size; the
\* File it yields is a snapshot of the committed content.
get_file ==
    /\ rd.pc = "idle"
    /\ rd' = [pc |-> "got", snap |-> file]
    /\ last' = Call("get_file", Ok(<<>>))
    /\ UNCHANGED <<file, base, keep, st, buf, cursor, ncmd, cmd, rng, tree, dcall, iter, fut>>

\* The rest of FileHandle::read, on the File get_file yielded.
read_file ==
    /\ rd.pc = "got"
    /\ rd' = Idle
    /\ last' = Call("read", FileRead(rd.snap))
    /\ UNCHANGED <<file, base, keep, st, buf, cursor, ncmd, cmd, rng, tree, dcall, iter, fut>>

\* The rest of FileHandle::size.
size_file ==
    /\ rd.pc = "got"
    /\ rd' = Idle
    /\ last' = Call("size", Ok(<<FileSize(rd.snap)>>))
    /\ UNCHANGED <<file, base, keep, st, buf, cursor, ncmd, cmd, rng, tree, dcall, iter, fut>>

\* The rest of FileHandle::read_range.
read_range_file(range, build) ==
    /\ rd.pc = "got"
    /\ rd' = Idle
    /\ last' = Call("read_range", FileReadRange(rd.snap, range, build))
    /\ rng' = range
    /\ UNCHANGED <<file, base, keep, st, buf, cursor, ncmd, cmd, tree, dcall, iter, fut>>

\* The ranges a reader asks for while a stream is at work: everything, and
\* everything from offset 1 on.
ConcRanges == {NoRange, [sk |-> "I", sv |-> 1, ek |-> "U", ev |-> 0]}

\* A stream command while a reader may be between its awaits.
command(op, chunk) ==
    /\ StreamStep(op, chunk)
    /\ UNCHANGED <<ncmd, cmd, rd, tree, dcall, iter, fut>>

NextConc ==
    \/ \E k \in BOOLEAN : create_writable_with_options(k)
    \/ \E data \in Data : command("write_at_cursor_pos", BlobChunk(data))
    \/ \E n \in Usize : command("truncate", TruncateChunk(n))
    \/ \E n \in Usize : command("seek", SeekChunk(n))
    \/ close
    \/ get_file
    \/ read_file
    \/ size_file
    \/ \E range \in ConcRanges : read_range_file(range, "release")

SpecConc == Init /\ [][NextConc]_vars

\* --------------------------------------------- close() polled step by step
\* The first poll of close(): `self.0.close()` runs and the future waits for
\* the promise.  The host starts closing an open stream; it rejects the call
\* on any other.
close_poll ==
    /\ st # "none"
    /\ fut.pc = "none"
    /\ IF st = "open"
       THEN /\ st' = "closing"
            /\ fut' = [fut EXCEPT !.pc = "pending"]
            /\ UNCHANGED last
       ELSE /\ last' = Call("close", Err(IF st = "closed" THEN "Closed" ELSE "TypeError"))
            /\ UNCHANGED <<st, fut>>
    /\ UNCHANGED <<file, base, keep, buf, cursor, ncmd, cmd, rng, rd, tree, dcall, iter>>

\* The host finishes the close it started, whether the caller still waits or
\* not: the pending content becomes the file's content in one step.
HostCloseCommit ==
    /\ st = "closing"
    /\ file' = buf
    /\ st' = "closed"
    /\ cursor' = 0
    /\ UNCHANGED <<base, keep, buf, ncmd, cmd, last, rng, rd, tree, dcall, iter, fut>>

\* The promise has resolved: `.await?; Ok(())`.
close_return ==
    /\ fut.pc = "pending"
    /\ st = "closed"
    /\ fut' = [fut EXCEPT !.pc = "none"]
    /\ last' = Call("close", Ok(<<>>))
    /\ UNCHANGED <<file, base, keep, st, buf, cursor, ncmd, cmd, rng, rd, tree, dcall, iter>>

\* The caller drops the future of close(): before its first poll, when
\* nothing of close() has run, or while it waits for the promise.
cancel_close ==
    /\ st # "none"
    /\ fut' = [pc |-> "none", dropped |-> TRUE]
    /\ last' = Call("close", Err("Cancelled"))
    /\ UNCHANGED <<file, base, keep, st, buf, cursor, ncmd, cmd, rng, rd, tree, dcall, iter>>

\* One stream on a file of any content, its close() polled step by step and
\* dropped at any point, and reads at any point.
InitCancel ==
    /\ file \in Contents
    /\ base = <<>>
    /\ keep = FALSE
    /\ st = "none"
    /\ buf = <<>>
    /\ cursor = 0
    /\ ncmd = 0
    /\ cmd = NoCmd
    /\ last = Call("none", Ok(<<>>))
    /\ rng = NoRange
    /\ rd = Idle
    /\ tree = EmptyTree
    /\ dcall = NoDirCall
    /\ iter = NoIter
    /\ fut = NoClose

NextCancel ==
    \/ \E k \in BOOLEAN : st = "none" /\ create_writable_with_options(k)
    \/ \E data \in Data : command("write_at_cursor_pos", BlobChunk(data))
    \/ \E n \in Usize : command("truncate", TruncateChunk(n))
    \/ \E n \in Usize : command("seek", SeekChunk(n))
    \/ close_poll
    \/ HostCloseCommit
    \/ close_return
    \/ cancel_close
    \/ read

SpecCancel == InitCancel /\ [][NextCancel]_vars

\* The contents a closed stream can leave behind: the host keeps offsets as
\* f64, so a write at position usize::MAX commits a file longer than any usize.
Committed == SeqsUpTo(UsizeMax + 1)

\* Reads of a file at rest, over every committed content.
InitRange ==
    /\ file \in Committed
    /\ base = <<>>
    /\ keep = FALSE
    /\ st = "none"
    /\ buf = <<>>
    /\ cursor = 0
    /\ ncmd = 0
    /\ cmd = NoCmd
    /\ last = Call("none", Ok(<<>>))
    /\ rng = NoRange
    /\ rd = Idle
    /\ tree = EmptyTree
    /\ dcall = NoDirCall
    /\ iter = NoIter
    /\ fut = NoClose

NextRange ==
    \/ \E range \in RangeArgs, build \in Builds : read_range(range, build)
    \/ read
    \/ size

SpecRange == InitRange /\ [][NextRange]_vars

\* ------------------------------------------- examples/advanced_file_ops.rs
\* The offsets the example reads at and the end of the text, and a range
\* of each form over them.
ExampleOffsets == {0, 5, 7, 12, Len(ExampleText)}
ExampleRanges ==
    {[sk |-> sk, sv |-> sv, ek |-> ek, ev |-> ev] :
        sk \in BoundKind, sv \in ExampleOffsets, ek \in BoundKind, ev \in ExampleOffsets}
ExampleRangeArgs ==
    {r \in ExampleRanges : (r.sk = "U" => r.sv = 0) /\ (r.ek = "U" => r.ev = 0)}

\* main() up to the reads: the file is new, the stream is created with
\* keep_existing_data = false, the text is written and the stream closed;
\* the reads come at any point.
NextExample ==
    \/ create_writable_with_options(FALSE)
    \/ write_at_cursor_pos(ExampleText)
    \/ close
    \/ ReadOn(ExampleUsizeMax)
    \/ SizeOn(ExampleUsizeMax)
    \/ \E range \in ExampleRangeArgs, build \in Builds :
          ReadRangeOn(range, build, ExampleUsizeMax)

SpecExample == Init /\ [][NextExample]_vars

\* ------------------------------------------------------- directory calls
\* Directory calls over every tree of files and directories.
InitDir ==
    /\ file = <<>>
    /\ base = <<>>
    /\ keep = FALSE
    /\ st = "none"
    /\ buf = <<>>
    /\ cursor = 0
    /\ ncmd = 0
    /\ cmd = NoCmd
    /\ last = Call("none", Ok(<<>>))
    /\ rng = NoRange
    /\ rd = Idle
    /\ tree \in Trees
    /\ dcall = NoDirCall
    /\ iter = NoIter
    /\ fut = NoClose

NextDir ==
    \/ \E dir \in DirPaths, name \in Names, create \in BOOLEAN :
          get_file_handle_with_options(dir, name, create)
    \/ \E dir \in DirPaths, name \in Names, create \in BOOLEAN :
          get_directory_handle_with_options(dir, name, create)
    \/ \E dir \in DirPaths, name \in Names : remove_entry(dir, name)
    \/ \E dir \in DirPaths, name \in Names, recursive \in BOOLEAN :
          remove_entry_with_options(dir, name, recursive)

SpecDir == InitDir /\ [][NextDir]_vars

\* A directory call while a stream of entries may be under way.
mutate(dir, r) ==
    /\ IsDir(tree, dir)
    /\ DirStep(r)
    /\ UNCHANGED dcall

NextEnum ==
    \/ \E dir \in DirPaths : entries(dir)
    \/ poll_next
    \/ \E dir \in DirPaths, name \in Names :
          mutate(dir, HostGetFileHandle(tree, dir, name, GetFileOptions(TRUE)))
    \/ \E dir \in DirPaths, name \in Names :
          mutate(dir, HostGetDirectoryHandle(tree, dir, name, GetDirectoryOptions(TRUE)))
    \/ \E dir \in DirPaths, name \in Names :
          mutate(dir, HostRemoveEntry(tree, dir, name, RemoveOptions(TRUE)))

SpecEnum == InitDir /\ [][NextEnum]_vars

\* ------------------------------------------------------------------ claims
StreamOps == {"write_at_cursor_pos", "write_with_params", "truncate", "seek", "close"}
Commands == StreamOps \ {"close"}

\* The range of spec.md section 4.4 over the unbounded integers.
MathStart(range) ==
    CASE range.sk = "I" -> range.sv [] range.sk = "E" -> range.sv + 1 [] range.sk = "U" -> 0
MathEnd(range, S) ==
    CASE range.ek = "I" -> range.ev + 1 [] range.ek = "E" -> range.ev [] range.ek = "U" -> S
MathSlice(content, range) ==
    LET S == Len(content)
        start == MathStart(range)
        actual_end == Min(MathEnd(range, S), S)
    IN  IF start >= S \/ start >= actual_end THEN <<>> ELSE SubSeq(content, start + 1, actual_end)

\* C1: for every range form and every bound, read_range returns Ok with exactly
\* the bytes at offsets [start, min(end, S)) of the file, start and end taken
\* over the integers (included end plus 1, excluded start plus 1), and the
\* empty sequence when start >= S or start >= min(end, S); never an error.
C1_RangeResolution ==
    last.op = "read_range" => last.res = Ok(MathSlice(file, rng))

\* The stream was closed after exactly one call, a write_at_cursor_pos(B) made
\* as its first command, and the last call is a read().
ReadAfterSingleWrite ==
    /\ last.op = "read"
    /\ st = "closed"
    /\ ncmd = 1
    /\ cmd.op = "write_at_cursor_pos"

\* C2 as stated: after create (either keep_existing_data, any prior content),
\* write_at_cursor_pos(B) as the first command and close, read() returns
\* exactly B.
C2_RoundTripAnyPrior ==
    ReadAfterSingleWrite => last.res = Ok(Unwrap(cmd.p.data))

\* C2 amended: that read() returns B followed by the bytes the prior content
\* has from offset len(B) on when keep_existing_data is true; it is exactly B
\* when keep_existing_data is false or the prior content is no longer than B.
C2_RoundTrip ==
    ReadAfterSingleWrite =>
        LET B == Unwrap(cmd.p.data)
            prior == IF keep THEN base ELSE <<>>
        IN  /\ last.res = Ok(B \o SubSeq(prior, Len(B) + 1, Len(prior)))
            /\ (~keep \/ Len(base) <= Len(B)) => last.res = Ok(B)

C2_Witness ==
    /\ ReadAfterSingleWrite
    /\ Unwrap(cmd.p.data) # <<>>
    /\ base # <<>>
    /\ last.res = Ok(Unwrap(cmd.p.data))

\* C3: the committed content, which is what every get_file() snapshots and
\* every read(), read_range() and size() answers from, changes only in a
\* successful close(), and then to the whole pending content: a reader in any
\* interleaving sees none of the stream's commands or all of them.
C3_CloseIsAtomicCommit ==
    [][ /\ file' # file => (st = "open" /\ st' = "closed" /\ last'.op = "close" /\ file' = buf)
        /\ (rd.pc = "idle" /\ rd'.pc = "got") => rd'.snap = file
        /\ (rd.pc = "got" /\ rd'.pc = "idle") =>
              /\ last'.op = "read" => last'.res = Ok(rd.snap)
              /\ last'.op = "size" => last'.res = Ok(<<Len(rd.snap)>>)
              /\ last'.op = "read_range" => last'.res = Ok(MathSlice(rd.snap, rng'))
      ]_vars

\* A read that ends while the stream holds uncommitted commands.
C3_Witness ==
    /\ last.op = "read"
    /\ st = "open"
    /\ buf # file
    /\ file # <<>>
    /\ last.res = Ok(file)

\* C4: once close() has returned Ok, every later write_at_cursor_pos,
\* write_with_params, seek, truncate and close on the stream returns the
\* Closed error and leaves the committed content and size as they were.
C4_ClosedIsTerminal ==
    [][ (st = "closed" /\ last'.op \in StreamOps) =>
            /\ last'.res = Err("Closed")
            /\ file' = file
            /\ st' = "closed"
      ]_vars

C4_Witness ==
    /\ st = "closed"
    /\ last.op = "write_with_params"
    /\ last.res = Err("Closed")
    /\ file # <<>>

\* The last call is a command that the open stream ran and answered Ok.
CommandRan == st = "open" /\ last.op \in Commands /\ last.res.k = "Ok"
TruncateRan == CommandRan /\ cmd.p.command_type = "Truncate"
SeekRan == CommandRan /\ cmd.p.command_type = "Seek"
WriteRan == CommandRan /\ cmd.p.command_type = "Write"

\* C5 as stated: after every command of an open stream the cursor lies in
\* [0, current_length].
C5_CursorInBounds ==
    CommandRan => cursor \in 0..Len(buf)

\* C5 amended: after every Write and Truncate command the cursor lies in
\* [0, current_length]; after Seek(p) the cursor is p, whatever the length.
C5_CursorAfterCommand ==
    CommandRan =>
        IF cmd.p.command_type = "Seek"
        THEN cursor = Unwrap(cmd.p.position)
        ELSE cursor \in 0..Len(buf)

C5_Witness ==
    /\ SeekRan
    /\ last.op = "seek"
    /\ cursor > Len(buf)
    /\ buf # <<>>

\* C6: truncate(m) on a pending content of length n leaves a pending content
\* of length exactly m whose first min(n, m) bytes are the old ones and whose
\* other bytes are zero, and the close() that follows makes it the file.
C6_TruncateResizes ==
    /\ TruncateRan =>
          LET m == Unwrap(cmd.p.size)
              n == Len(cmd.buf)
          IN  /\ Len(buf) = m
              /\ \A i \in 1..m : buf[i] = IF i <= n THEN cmd.buf[i] ELSE 0
    /\ (st = "closed" /\ last.op = "close") => file = buf
    /\ (st = "closed" /\ last.op = "close" /\ cmd.p.command_type = "Truncate") =>
          Len(file) = Unwrap(cmd.p.size)

\* A truncate that grew a non-empty pending content.
C6_Witness ==
    /\ TruncateRan
    /\ last.op = "truncate"
    /\ cmd.buf # <<>>
    /\ Len(buf) > Len(cmd.buf)

\* C7: Truncate(size) leaves the cursor at min(old cursor, size); a
\* write_at_cursor_pos(B) issued right after a truncate that shrank the file
\* below the cursor appends B at offset size.
C7_TruncateClampsCursor ==
    [][ /\ TruncateRan' => cursor' = Min(cmd'.cursor, Unwrap(cmd'.p.size))
        /\ ( /\ TruncateRan
             /\ cmd.cursor > Unwrap(cmd.p.size)
             /\ WriteRan'
             /\ last'.op = "write_at_cursor_pos" ) =>
               /\ cmd'.cursor = Unwrap(cmd.p.size)
               /\ buf' = buf \o Unwrap(cmd'.p.data)
      ]_vars

\* A truncate below the cursor has run.
C7_Witness ==
    /\ TruncateRan
    /\ cmd.cursor > Unwrap(cmd.p.size)
    /\ cursor = Len(buf)
    /\ buf # <<>>

\* The pending content after `data` is written at offset p of `old`: the
\* window holds data, the bytes below the old length keep their value, the
\* others are zero, and nothing lies beyond max(old length, p + len(data)).
Written(new, old, p, data) ==
    /\ Len(new) = IF p + Len(data) > Len(old) THEN p + Len(data) ELSE Len(old)
    /\ \A i \in 1..Len(new) :
          new[i] = IF i > p /\ i <= p + Len(data) THEN data[i - p]
                   ELSE IF i <= Len(old) THEN old[i]
                   ELSE 0

\* C8: Seek(p) changes no byte and no length of the pending content, and the
\* write_at_cursor_pos(B) that follows writes B at [p, p+len(B)): it
\* overwrites, keeps the other old bytes, extends, and zero-fills [old length, p).
C8_SeekThenWrite ==
    [][ /\ SeekRan' => (buf' = cmd'.buf /\ buf' = buf /\ cursor' = Unwrap(cmd'.p.position))
        /\ (SeekRan /\ WriteRan' /\ last'.op = "write_at_cursor_pos") =>
              Written(buf', buf, Unwrap(cmd.p.position), Unwrap(cmd'.p.data))
      ]_vars

\* A write that landed beyond the old end, where only a seek can put the
\* cursor: the gap is zero-filled and a non-zero byte follows it.
C8_Witness ==
    /\ WriteRan
    /\ last.op = "write_at_cursor_pos"
    /\ cmd.cursor > Len(cmd.buf)
    /\ Unwrap(cmd.p.data) = <<1>>
    /\ buf = Zeros(cmd.cursor) \o <<1>>

\* The offset a Write command of write_with_params writes at.
WritePos == IF IsSome(cmd.p.position) THEN Unwrap(cmd.p.position) ELSE cmd.cursor

\* C9: after write_with_params Write(data, position = p) the cursor is
\* p + len(data), after Write(data, position absent) it is old cursor +
\* len(data); the bytes are written there, with [old length, p) zero-filled;
\* the write_at_cursor_pos that follows lands right after them.
C9_PositionedWriteMovesCursor ==
    [][ /\ (WriteRan' /\ last'.op = "write_with_params") =>
              LET pos == IF IsSome(cmd'.p.position) THEN Unwrap(cmd'.p.position) ELSE cursor
                  data == Unwrap(cmd'.p.data)
              IN  /\ cursor' = pos + Len(data)
                  /\ Written(buf', buf, pos, data)
        /\ (WriteRan /\ last.op = "write_with_params" /\ WriteRan'
              /\ last'.op = "write_at_cursor_pos") =>
              Written(buf', buf, WritePos + Len(Unwrap(cmd.p.data)), Unwrap(cmd'.p.data))
      ]_vars

\* A positioned write beyond the end of the pending content, issued while the
\* cursor was elsewhere.
C9_Witness ==
    /\ WriteRan
    /\ last.op = "write_with_params"
    /\ IsSome(cmd.p.position)
    /\ Unwrap(cmd.p.position) > Len(cmd.buf)
    /\ Unwrap(cmd.p.position) # cmd.cursor
    /\ Unwrap(cmd.p.data) = <<1>>
    /\ cursor = Len(buf)

\* C10: a stream created with keep_existing_data = false starts at cursor 0
\* over empty pending content, one created with true at cursor 0 over the
\* existing bytes; the file keeps its old content while the stream is open;
\* closing without any command leaves size 0, respectively the old content.
C10_CreationMode ==
    /\ last.op = "create_writable" =>
          /\ cursor = 0
          /\ buf = IF keep THEN base ELSE <<>>
    /\ st = "open" => file = base
    /\ (st = "open" /\ last.op = "read") => last.res = Ok(base)
    /\ (st = "closed" /\ ncmd = 0) =>
          /\ file = IF keep THEN base ELSE <<>>
          /\ ~keep => Len(file) = 0

\* A stream over a non-empty file, created with keep_existing_data = false
\* and closed without any command.
C10_Witness ==
    /\ st = "closed"
    /\ ncmd = 0
    /\ last.op = "close"
    /\ ~keep
    /\ base # <<>>
    /\ file = <<>>

\* C11: a convenience method leaves the stream as write_with_params with the
\* command it stands for does from the same state (same pending content, same
\* cursor, same result), and write_with_params with such a command leaves it
\* as the convenience method does, for every usize size and offset.
C11_SugarIsSameCommand ==
    [][ /\ (st = "open" /\ last'.op \in {"write_at_cursor_pos", "truncate", "seek"}) =>
              LET r == HostWrite(WebWriteParams(cmd'.p))
              IN  /\ buf' = r.buf
                  /\ cursor' = r.cursor
                  /\ last'.res = r.res
        /\ (st = "open" /\ last'.op = "write_with_params") =>
              LET p == cmd'.p
                  r == CASE IsSome(p.data) /\ p = WriteArg(p.data[1]) ->
                                HostWrite(BlobChunk(p.data[1]))
                         [] IsSome(p.size) /\ p = TruncateArg(p.size[1]) ->
                                HostWrite(TruncateChunk(p.size[1]))
                         [] IsSome(p.position) /\ p = SeekArg(p.position[1]) ->
                                HostWrite(SeekChunk(p.position[1]))
                         [] OTHER -> [buf |-> buf', cursor |-> cursor', res |-> last'.res]
              IN  /\ buf' = r.buf
                  /\ cursor' = r.cursor
                  /\ last'.res = r.res
      ]_vars

\* seek(usize::MAX) has run on a stream with pending bytes.
C11_Witness ==
    /\ SeekRan
    /\ last.op = "seek"
    /\ cmd.p = SeekArg(UsizeMax)
    /\ cursor = UsizeMax
    /\ buf # <<>>

\* What the most recently closed stream committed.
LastCommit == IF st = "closed" THEN buf ELSE IF st = "none" THEN file ELSE base

\* C12: size() returns the byte length the most recently closed stream
\* produced, and read() returns a sequence of that length.
C12_SizeAndReadReflectCommit ==
    /\ last.op = "size" => last.res = Ok(<<Len(LastCommit)>>)
    /\ last.op = "read" => (last.res.k = "Ok" /\ Len(last.res.v) = Len(LastCommit))

\* The path a directory call is about.
CallPath(c) == c.dir \o <<c.name>>
NoEntryAt(t, p) == \A e \in t : e.path # p
\* One entry at most per path: no directory has two children of one name,
\* and no name is both a file and a directory.
UniqueNames(t) == \A e1 \in t, e2 \in t : e1.path = e2.path => e1 = e2

\* C13: get_file_handle fails with NotFound when the name is absent and
\* create is false, fails with TypeMismatch when the name is a directory
\* (whatever create is, creating nothing), and creates an empty file when the
\* name is absent and create is true; get_directory_handle is symmetric; and
\* after every call names are unique among the children of every directory.
C13_LookupKeepsNamesUnique ==
    [][ LET c == dcall'
            p == CallPath(c)
        IN  /\ c.op = "get_file_handle" =>
                  /\ (NoEntryAt(tree, p) /\ ~c.flag) =>
                        (c.res = Err("NotFound") /\ tree' = tree)
                  /\ HasKind(tree, p, "directory") =>
                        (c.res = Err("TypeMismatch") /\ tree' = tree)
                  /\ (NoEntryAt(tree, p) /\ c.flag) =>
                        /\ c.res = Ok(p)
                        /\ tree' = tree \cup {FileEntry(p, <<>>)}
                        /\ \A e \in tree' : e.path = p => (e.kind = "file" /\ Len(e.content) = 0)
            /\ c.op = "get_directory_handle" =>
                  /\ (NoEntryAt(tree, p) /\ ~c.flag) =>
                        (c.res = Err("NotFound") /\ tree' = tree)
                  /\ HasKind(tree, p, "file") =>
                        (c.res = Err("TypeMismatch") /\ tree' = tree)
                  /\ (NoEntryAt(tree, p) /\ c.flag) =>
                        (c.res = Ok(p) /\ tree' = tree \cup {DirEntry(p)})
            /\ UniqueNames(tree')
      ]_vars

\* A file looked up with create = true inside a sub-directory, next to a
\* file that holds a byte.
C13_Witness ==
    /\ dcall.op = "get_file_handle"
    /\ dcall.flag
    /\ Len(dcall.dir) = 1
    /\ dcall.res = Ok(CallPath(dcall))
    /\ FileEntry(CallPath(dcall), <<>>) \in tree
    /\ \E e \in tree : e.kind = "file" /\ e.content # <<>> /\ Len(e.path) = 2

\* C14: removal fails with NotFound when the name is no direct child, and
\* with NotEmpty when it is a directory with children and recursive is false
\* (plain remove_entry included); a failed call leaves the tree unchanged;
\* otherwise the child and its whole subtree are removed, every other entry
\* is unchanged, and a lookup of the name with create = false now fails with
\* NotFound.
C14_Removal ==
    [][ LET c == dcall'
            p == CallPath(c)
            populated == HasKind(tree, p, "directory") /\ Children(tree, p) # {}
        IN  c.op \in {"remove_entry", "remove_entry_with_options"} =>
              /\ (c.op = "remove_entry" => ~c.flag)
              /\ NoEntryAt(tree, p) => (c.res = Err("NotFound") /\ tree' = tree)
              /\ (populated /\ ~c.flag) => (c.res = Err("NotEmpty") /\ tree' = tree)
              /\ c.res.k # "Ok" => tree' = tree
              /\ (~NoEntryAt(tree, p) /\ (c.flag \/ ~populated)) =>
                    /\ c.res = Ok(<<>>)
                    /\ tree' = {e \in tree : ~IsPrefix(p, e.path)}
                    /\ HostGetFileHandle(tree', c.dir, c.name, GetFileOptions(FALSE)).res
                          = Err("NotFound")
                    /\ HostGetDirectoryHandle(tree', c.dir, c.name, GetDirectoryOptions(FALSE)).res
                          = Err("NotFound")
      ]_vars

\* A recursive removal from the root that left a sibling directory with its
\* child in place.
C14_Witness ==
    /\ dcall.op = "remove_entry_with_options"
    /\ dcall.flag
    /\ dcall.dir = <<>>
    /\ dcall.res = Ok(<<>>)
    /\ NoEntryAt(tree, CallPath(dcall))
    /\ \E e \in tree : Len(e.path) = 2

\* The names the stream of entries has yielded.
Yielded == {iter.items[i].name : i \in 1..Len(iter.items)}

\* C15: over a directory that is not mutated, the stream of entries() never
\* yields a name twice nor a name that is no direct child, tags every item
\* File for a file and Directory for a directory, and when it has ended it
\* has yielded every direct child exactly once.
C15_EnumerationComplete ==
    (iter.pc # "idle" /\ ~iter.dirty) =>
        LET kids == Children(tree, iter.dir)
        IN  /\ Len(iter.items) <= Cardinality(kids)
            /\ \A i \in 1..Len(iter.items), j \in 1..Len(iter.items) :
                  iter.items[i].name = iter.items[j].name => i = j
            /\ \A i \in 1..Len(iter.items) :
                  \E e \in kids :
                     /\ BaseName(e) = iter.items[i].name
                     /\ iter.items[i].entry = IF e.kind = "file" THEN "File" ELSE "Directory"
            /\ iter.pc = "done" =>
                  /\ Yielded = {BaseName(e) : e \in kids}
                  /\ Len(iter.items) = Cardinality(kids)

\* The root enumerated to its end: a file and a directory that has a child
\* of its own.
C15_Witness ==
    /\ iter.pc = "done"
    /\ ~iter.dirty
    /\ iter.dir = <<>>
    /\ Len(iter.items) = 2
    /\ iter.items[1].entry = "Directory"
    /\ iter.items[2].entry = "File"
    /\ \E e \in tree : Len(e.path) = 2

\* The example has run: the stream wrote the text as its only command and
\* was closed.
ExampleRan ==
    /\ st = "closed"
    /\ ~keep
    /\ ncmd = 1
    /\ cmd.op = "write_at_cursor_pos"
    /\ cmd.p = WriteArg(ExampleText)

\* "Hello", "World! This is a test file." and "World!"
Hello == <<72, 101, 108, 108, 111>>
WorldToEnd ==
    <<87, 111, 114, 108, 100, 33, 32, 84, 104, 105, 115, 32, 105, 115, 32,
      97, 32, 116, 101, 115, 116, 32, 102, 105, 108, 101, 46>>
World == <<87, 111, 114, 108, 100, 33>>

\* What the example reads back: the text, "Hello" for 0..5, the text from
\* "World!" on for 7.., "World!" for 7..=12.
ExampleReads ==
    /\ last.op = "read" => last.res = Ok(ExampleText)
    /\ (last.op = "read_range" /\ rng = [sk |-> "I", sv |-> 0, ek |-> "E", ev |-> 5]) => last.res = Ok(Hello)
    /\ (last.op = "read_range" /\ rng = [sk |-> "I", sv |-> 7, ek |-> "U", ev |-> 0]) => last.res = Ok(WorldToEnd)
    /\ (last.op = "read_range" /\ rng = [sk |-> "I", sv |-> 7, ek |-> "I", ev |-> 12]) => last.res = Ok(World)

\* C16 as stated: after the example, read() returns the text, which is 35
\* bytes long, and the three range reads return "Hello", "World! This is a
\* test file." and "World!".
C16_ExampleAsStated ==
    ExampleRan =>
        /\ ExampleReads
        /\ last.op = "read" => Len(last.res.v) = 35
        /\ last.op = "size" => last.res = Ok(<<35>>)

\* C16 amended: the same, the text being 34 bytes long.
C16_Example ==
    ExampleRan =>
        /\ ExampleReads
        /\ last.op = "read" => Len(last.res.v) = 34
        /\ last.op = "size" => last.res = Ok(<<34>>)

\* read_range(7..=12) after the example.
C16_Witness ==
    /\ ExampleRan
    /\ last.op = "read_range"
    /\ rng = [sk |-> "I", sv |-> 7, ek |-> "I", ev |-> 12]
    /\ last.res = Ok(World)

\* C17: read_range with an included end or an excluded start equal to the
\* largest usize neither fails nor wraps: it returns the slice the formula
\* gives over the unbounded integers.
C17_NoRangeOverflow ==
    ( /\ last.op = "read_range"
      /\ \/ (rng.ek = "I" /\ rng.ev = UsizeMax)
         \/ (rng.sk = "E" /\ rng.sv = UsizeMax) ) =>
        last.res = Ok(MathSlice(file, rng))

\* The command of a WriteParams value with the fields that do not belong to
\* it taken out: data and position for Write, position for Seek, size for
\* Truncate.
OwnFields(p) ==
    [type |-> CASE p.command_type = "Write" -> "write"
                [] p.command_type = "Seek" -> "seek"
                [] p.command_type = "Truncate" -> "truncate",
     data |-> IF p.command_type = "Write" THEN p.data ELSE None,
     position |-> IF p.command_type \in {"Write", "Seek"} THEN p.position ELSE None,
     size |-> IF p.command_type = "Truncate" THEN p.size ELSE None]

\* C18: the result, the pending content and the cursor write_with_params
\* leaves are those of the command with only its own fields, whatever the
\* other fields hold; a Seek that carries data changes no byte.
C18_OnlyOwnFieldsCount ==
    [][ (st = "open" /\ last'.op = "write_with_params") =>
            LET r == HostWriteChunk([buf |-> buf, cursor |-> cursor], OwnFields(cmd'.p))
            IN  /\ last'.res = r.res
                /\ buf' = r.buf
                /\ cursor' = r.cursor
                /\ cmd'.p.command_type = "Seek" => buf' = buf
      ]_vars

\* A Seek that carried data and a size has run on pending bytes.
C18_Witness ==
    /\ SeekRan
    /\ last.op = "write_with_params"
    /\ IsSome(cmd.p.data)
    /\ IsSome(cmd.p.size)
    /\ buf # <<>>
    /\ buf = cmd.buf
    /\ cursor # cmd.cursor

\* The field a command cannot do without is there.
HasOwnField(p) ==
    CASE p.command_type = "Write" -> IsSome(p.data)
      [] p.command_type = "Seek" -> IsSome(p.position)
      [] p.command_type = "Truncate" -> IsSome(p.size)

C20_CancelledCloseAllOrNothing ==
    fut.dropped =>
        /\ file = base \/ (st = "closed" /\ file = buf)
        /\ last.op = "read" =>
              (last.res = Ok(base) \/ (st = "closed" /\ last.res = Ok(buf)))

\* A close() dropped while it waited, the commit that followed all the same,
\* and a read of the new content.
C20_Witness ==
    /\ fut.dropped
    /\ st = "closed"
    /\ last.op = "read"
    /\ last.res = Ok(buf)
    /\ base # <<>>
    /\ buf # base
    /\ buf # <<>>

\* C21: read_range(..) returns the byte sequence read() returns, for every
\* committed content, the empty one included, and no read_range result is
\* longer than size().
C21_FullRangeEqualsRead ==
    /\ (last.op = "read_range" /\ rng = NoRange) => last.res = FileRead(file)
    /\ last.op = "read" =>
          \A build \in Builds : FileReadRange(file, NoRange, build) = last.res
    /\ (last.op = "read_range" /\ last.res.k = "Ok") => Len(last.res.v) <= FileSize(file)

====
